---- MODULE Spec2Model ----
(***************************************************************************)
(* Model of the invoicing monitoring pass of telegram-build-notifier:      *)
(* monitor_invoicing_system (main.py) and monitor_dashboard                *)
(* (monitor_app.py), with the functions they call: get_database_connection,*)
(* check_stuck_jobs, check_worker_health, the two alert formatters and     *)
(* send_telegram_alert.                                                    *)
(*                                                                         *)
(* Text is a sequence of symbols (strings); Python's None is the empty     *)
(* tuple and a present value v is <<v>>.  Time is counted in units of two  *)
(* minutes (UnitsPerHour to the hour), hours_stuck in tenths of an hour.   *)
(* Order fields that are only copied through (external_order_id,           *)
(* updated_at, retry_count, error_message) and the timestamps of the       *)
(* summaries are left out.                                                 *)
(***************************************************************************)
EXTENDS Integers, Sequences, FiniteSets, TLC

\* ------------------------------------------------------------------ bounds
MaxOrders == 3          \* orders in the store given to the detector
MaxPassOrders == 2      \* orders in the store of a monitoring pass
MaxSkew == 3            \* store clock minus application clock, in time units
MaxOver == 3            \* symbols by which an exception message exceeds ErrTrunc
MaxJobs == 7            \* stuck jobs given to the formatter

\* ------------------------------------------------------- program constants
StuckHours == 24        \* timedelta(hours=24)
ErrTrunc == 200         \* str(e)[:200]
DisplayLimit == 5       \* stuck_jobs[:5]
UnitsPerHour == 30      \* resolution of the clocks of the model

Day == StuckHours * UnitsPerHour
AppNow == 100 * UnitsPerHour

None == <<>>
Some(v) == <<v>>

Min(a, b) == IF a < b THEN a ELSE b

\* s[:n]
Take(s, n) == SubSeq(s, 1, Min(n, Len(s)))

\* a message of n symbols whose first symbol tells where it was raised
Text(tag, n) == [i \in 1..n |-> IF i = 1 THEN tag ELSE "."]

ExcLens == {1, ErrTrunc, ErrTrunc + MaxOver}

\* ------------------------------------------------------------ get_secret
\* the secret manager answers with a value, or the lookup fails and None is
\* returned; .strip() may leave the empty string
SecretAnswers == {None, Some(""), Some("value"), Some("malformed")}

get_secret(answer) == answer

Truthy(opt) == opt # None /\ opt # Some("")

\* a or b
PyOr(a, b) == IF Truthy(a) THEN a ELSE b

\* ------------------------------------------------- get_database_connection
\* raises when the secret is missing or empty, or when create_engine rejects
\* the URL
get_database_connection(answer, n) ==
  LET database_url == get_secret(answer)
  IN IF ~Truthy(database_url)
       THEN [raised |-> TRUE, exc |-> Text("DATABASE_URL secret not found", 1)]
       ELSE IF database_url = Some("malformed")
         THEN [raised |-> TRUE, exc |-> Text("create_engine", n)]
         ELSE [raised |-> FALSE, exc |-> <<>>]

\* ------------------------------------------------------ send_telegram_alert
PostOutcomes == {"200", "400", "exception"}

\* os.environ and the secret manager, as far as the credentials go
CredentialSetups ==
  { [envTok |-> Some("value"), secTok |-> None, envChat |-> Some("value"), secChat |-> None],
    [envTok |-> None, secTok |-> Some("value"), envChat |-> None, secChat |-> Some("value")],
    [envTok |-> Some(""), secTok |-> Some("value"), envChat |-> Some("value"), secChat |-> None],
    [envTok |-> None, secTok |-> None, envChat |-> Some("value"), secChat |-> None] }

\* send_telegram_alert without its "except Exception"
send_telegram_alert_uncaught(cred, post) ==
  LET bot_token == PyOr(cred.envTok, get_secret(cred.secTok))
      chat_id == PyOr(cred.envChat, get_secret(cred.secChat))
  IN IF ~Truthy(bot_token) \/ ~Truthy(chat_id)
       THEN [raised |-> FALSE, ok |-> FALSE, posted |-> FALSE]
       ELSE CASE post = "200" -> [raised |-> FALSE, ok |-> TRUE, posted |-> TRUE]
              [] post = "400" -> [raised |-> FALSE, ok |-> FALSE, posted |-> TRUE]
              [] OTHER -> [raised |-> TRUE, ok |-> FALSE, posted |-> TRUE]

send_telegram_alert(cred, post) ==
  LET bot_token == PyOr(cred.envTok, get_secret(cred.secTok))
      chat_id == PyOr(cred.envChat, get_secret(cred.secChat))
  IN IF ~Truthy(bot_token) \/ ~Truthy(chat_id)
       THEN [raised |-> FALSE, ok |-> FALSE, posted |-> FALSE]
       ELSE CASE post = "200" -> [raised |-> FALSE, ok |-> TRUE, posted |-> TRUE]
              [] post = "400" -> [raised |-> FALSE, ok |-> FALSE, posted |-> TRUE]
              [] OTHER -> [raised |-> FALSE, ok |-> FALSE, posted |-> TRUE]

\* --------------------------------------------------------- check_stuck_jobs
Statuses == {"PENDING", "PROCESSING", "COMPLETED"}
OrderAges == {Day - 1, Day, Day + 1, Day + 4}

ClockSkews == {0 - MaxSkew, 0, MaxSkew}

\* the stores of up to max orders with these statuses and ages
StoresOf(max, statuses, ages) ==
  UNION { [1..n -> [status : statuses, created_at : {AppNow - a : a \in ages}]]
          : n \in 0..max }

OrderSets == StoresOf(MaxOrders, Statuses, OrderAges)

\* the stores a monitoring pass is run against
PassOrderSets == StoresOf(MaxPassOrders, {"PENDING", "COMPLETED"}, {Day, Day + 1})

\* the rows of the store: order i is stored[i] with id i
OrdersOf(stored) ==
  { [id |-> i, status |-> stored[i].status, created_at |-> stored[i].created_at]
    : i \in DOMAIN stored }

\* nearest integer to a / b, b odd
RoundDiv(a, b) == (2 * a + b) \div (2 * b)

\* round(EXTRACT(EPOCH FROM (NOW() - created_at))/3600, 1), in tenths of an hour
HoursStuck(db_now, created_at) == RoundDiv(10 * (db_now - created_at), UnitsPerHour)

\* the cutoff taken inclusively: created_at <= :cutoff_time
Selected_inclusive(o, cutoff_time) ==
  o.status \in {"PENDING", "PROCESSING"} /\ o.created_at <= cutoff_time

\* WHERE status IN ('PENDING', 'PROCESSING') AND created_at < :cutoff_time
Selected(o, cutoff_time) ==
  o.status \in {"PENDING", "PROCESSING"} /\ o.created_at < cutoff_time

StuckJobReport(o, db_now) ==
  [id |-> o.id, status |-> o.status, created_at |-> o.created_at,
   hours_stuck |-> HoursStuck(db_now, o.created_at)]

\* every list the query can return: the selected rows ORDER BY created_at ASC
\* (rows with equal created_at in either order)
check_stuck_jobs(rows, app_now, db_now) ==
  LET cutoff_time == app_now - Day
      sel == { o \in rows : Selected(o, cutoff_time) }
      n == Cardinality(sel)
  IN { [i \in 1..n |-> StuckJobReport(f[i], db_now)] :
         f \in { g \in [1..n -> sel] :
                   /\ \A i, j \in 1..n : i # j => g[i] # g[j]
                   /\ \A i, j \in 1..n : i < j => g[i].created_at <= g[j].created_at } }

\* ------------------------------------------------------ check_worker_health
FallbackUrl == <<"https://lunette-invoicing-898902894034.europe-west1.run.app/api/v1">>
WorkerUrlEnv == {None, Some(<<"https://worker.internal/api/v1", "/", "/">>)}

\* os.getenv("WORKER_SERVICE_URL", default), then the hard-coded URL
worker_urls(envUrl) ==
  << IF envUrl = None THEN FallbackUrl ELSE envUrl[1], FallbackUrl >>

RECURSIVE RStrip(_)
RStrip(s) ==
  IF s # <<>> /\ s[Len(s)] = "/" THEN RStrip(SubSeq(s, 1, Len(s) - 1)) ELSE s

\* what requests.get does: a response, a requests.exceptions.RequestException,
\* or an exception of another class
ProbeOutcomes ==
  { [kind |-> "response", status_code |-> "200", elapsed |-> 128, msg |-> <<>>],
    [kind |-> "response", status_code |-> "500", elapsed |-> 94, msg |-> <<>>],
    [kind |-> "RequestException", status_code |-> "", elapsed |-> 0,
     msg |-> <<"Read timed out">>],
    [kind |-> "Exception", status_code |-> "", elapsed |-> 0,
     msg |-> <<"label empty or too long">>] }

InitialHealth ==
  [healthy |-> FALSE, url |-> None, response_time |-> None, error |-> None]

RECURSIVE ProbeFrom(_, _, _, _, _)

\* the loop without its break: the candidates after a 200 are probed too
ProbeFrom_no_break(urls, outs, i, health_status, probed) ==
  IF i > Len(urls)
    THEN [raised |-> FALSE, exc |-> <<>>, health_status |-> health_status,
          probed |-> probed]
    ELSE LET health_url == RStrip(urls[i]) \o <<"/health">>
             o == outs[i]
             p == Append(probed, health_url)
         IN CASE o.kind = "response" /\ o.status_code = "200" ->
                   ProbeFrom(urls, outs, i + 1,
                     [healthy |-> TRUE, url |-> Some(health_url),
                      response_time |-> Some((o.elapsed + 5) \div 10),
                      error |-> None], p)
              [] o.kind = "response" /\ o.status_code # "200" ->
                   ProbeFrom(urls, outs, i + 1,
                     [health_status EXCEPT !.error = Some(<<"HTTP ", o.status_code>>)], p)
              [] o.kind = "RequestException" ->
                   ProbeFrom(urls, outs, i + 1,
                     [health_status EXCEPT !.error = Some(o.msg)], p)
              [] OTHER ->
                   [raised |-> TRUE, exc |-> o.msg, health_status |-> health_status,
                    probed |-> p]

\* the loop keeping the first error instead of overwriting it
ProbeFrom_first_error(urls, outs, i, health_status, probed) ==
  IF i > Len(urls)
    THEN [raised |-> FALSE, exc |-> <<>>, health_status |-> health_status,
          probed |-> probed]
    ELSE LET health_url == RStrip(urls[i]) \o <<"/health">>
             o == outs[i]
             p == Append(probed, health_url)
             keep(e) == IF health_status.error = None THEN Some(e)
                        ELSE health_status.error
         IN CASE o.kind = "response" /\ o.status_code = "200" ->
                   [raised |-> FALSE, exc |-> <<>>, probed |-> p,
                    health_status |->
                      [healthy |-> TRUE, url |-> Some(health_url),
                       response_time |-> Some((o.elapsed + 5) \div 10),
                       error |-> None]]
              [] o.kind = "response" /\ o.status_code # "200" ->
                   ProbeFrom(urls, outs, i + 1,
                     [health_status EXCEPT !.error = keep(<<"HTTP ", o.status_code>>)], p)
              [] o.kind = "RequestException" ->
                   ProbeFrom(urls, outs, i + 1,
                     [health_status EXCEPT !.error = keep(o.msg)], p)
              [] OTHER ->
                   [raised |-> TRUE, exc |-> o.msg, health_status |-> health_status,
                    probed |-> p]

\* the loop "for url in worker_urls" from candidate i on; probed lists the
\* requests issued
ProbeFrom(urls, outs, i, health_status, probed) ==
  IF i > Len(urls)
    THEN [raised |-> FALSE, exc |-> <<>>, health_status |-> health_status,
          probed |-> probed]
    ELSE LET health_url == RStrip(urls[i]) \o <<"/health">>
             o == outs[i]
             p == Append(probed, health_url)
         IN CASE o.kind = "response" /\ o.status_code = "200" ->
                   [raised |-> FALSE, exc |-> <<>>, probed |-> p,
                    health_status |->
                      [healthy |-> TRUE, url |-> Some(health_url),
                       response_time |-> Some((o.elapsed + 5) \div 10),
                       error |-> None]]
              [] o.kind = "response" /\ o.status_code # "200" ->
                   ProbeFrom(urls, outs, i + 1,
                     [health_status EXCEPT !.error = Some(<<"HTTP ", o.status_code>>)], p)
              [] o.kind = "RequestException" ->
                   ProbeFrom(urls, outs, i + 1,
                     [health_status EXCEPT !.error = Some(o.msg)], p)
              [] OTHER ->
                   [raised |-> TRUE, exc |-> o.msg, health_status |-> health_status,
                    probed |-> p]

check_worker_health(envUrl, outs) ==
  ProbeFrom(worker_urls(envUrl), outs, 1, InitialHealth, <<>>)

\* ------------------------------------------------------------- formatters
EmptyAlert == [kind |-> "empty"]

\* the formatter silent for a single stuck job
format_stuck_jobs_alert_min_two(jobs) ==
  IF Len(jobs) < 2
    THEN EmptyAlert
    ELSE [kind |-> "stuck", total |-> Len(jobs),
          listed |-> Take(jobs, DisplayLimit),
          more |-> IF Len(jobs) > DisplayLimit
                     THEN Some(Len(jobs) - DisplayLimit) ELSE None]

\* the summary line added from DisplayLimit jobs on: len(stuck_jobs) >= 5
format_stuck_jobs_alert_more_at_limit(jobs) ==
  IF jobs = <<>>
    THEN EmptyAlert
    ELSE [kind |-> "stuck", total |-> Len(jobs),
          listed |-> Take(jobs, DisplayLimit),
          more |-> IF Len(jobs) >= DisplayLimit
                     THEN Some(Len(jobs) - DisplayLimit) ELSE None]

format_stuck_jobs_alert(jobs) ==
  IF jobs = <<>>
    THEN EmptyAlert
    ELSE [kind |-> "stuck", total |-> Len(jobs),
          listed |-> Take(jobs, DisplayLimit),
          more |-> IF Len(jobs) > DisplayLimit
                     THEN Some(Len(jobs) - DisplayLimit) ELSE None]

\* dict.get(key, default)
DictGet(d, key, default) == IF key \in DOMAIN d THEN d[key] ELSE Some(default)

\* how an f-string renders an optional value
Render(opt) == IF opt = None THEN <<"None">> ELSE opt[1]

format_worker_health_alert(health_status) ==
  IF health_status.healthy
    THEN EmptyAlert
    ELSE [kind |-> "health",
          url |-> Render(DictGet(health_status, "url", <<"Multiple URLs tried">>)),
          error |-> Render(DictGet(health_status, "error", <<"Unknown error">>))]

ErrorAlert(exc) == [kind |-> "error", detail |-> Take(exc, ErrTrunc)]

\* --------------------------------------------------------- event notifiers
\* The documents of the Pub/Sub payloads: a key is absent (None) or carries
\* a value.  The keys that are only copied into a message have one setting.
BuildStatuses == {"SUCCESS", "FAILURE", "TIMEOUT", "CANCELLED", "WORKING"}
InvoiceStatuses == {"success", "failure", "pending"}
EventTypes == {"invoice_creation", "invoice_completion", "invoice_refund"}

Optional(values) == {None} \cup {Some(v) : v \in values}

Docs ==
  [projectId : Optional({"p"}), id : Optional({"b1"}),
   status : Optional(BuildStatuses \cup InvoiceStatuses),
   event_type : Optional(EventTypes), invoice_id : Optional({"inv1"}),
   error_message : Optional({"x"}),
   external_order_id : {Some("o1")}, customer_name : {None},
   amount : {Some("99.99")}, currency : {None},
   REPO_NAME : {Some("r")}, BRANCH_NAME : {None}]

NoDoc == CHOOSE d \in Docs : \A k \in {"projectId", "id", "status", "event_type",
                                        "invoice_id", "error_message"} : d[k] = None

\* cloud_event['data']: not base64, base64 of something that is not JSON,
\* JSON that is not an object, or the JSON of a document
Payloads ==
  { [kind |-> k, doc |-> NoDoc] : k \in {"bad_base64", "bad_json", "scalar"} }
    \cup { [kind |-> "object", doc |-> d] : d \in Docs }

\* base64.b64decode(...).decode('utf-8') and json.loads
DecodePayload(payload) ==
  CASE payload.kind = "bad_base64" -> [raised |-> TRUE, is_object |-> FALSE]
    [] payload.kind = "bad_json" -> [raised |-> TRUE, is_object |-> FALSE]
    [] payload.kind = "scalar" -> [raised |-> FALSE, is_object |-> FALSE]
    [] OTHER -> [raised |-> FALSE, is_object |-> TRUE]

\* d.get(key, default), rendered by an f-string
GetOr(opt, default) == IF opt = None THEN default ELSE opt[1]

Line(text, value) == [text |-> text, value |-> value]

\* send_telegram_message: one POST; anything but a 200 raises
send_telegram_message(message, post) ==
  [posts |-> << [message |-> message, outcome |-> post] >>, raised |-> post # "200"]

\* what a notifier did: the functions entered, the POSTs made, whether an
\* exception left it, and how unified_notifier classified the document
Outcome(fns, posts, raised, route) ==
  [fns |-> fns, posts |-> posts, raised |-> raised, route |-> route]

\* except Exception as e: print(...)
Caught(o) == [o EXCEPT !.raised = FALSE]

\* BOT_TOKEN = os.environ.get('BOT_TOKEN'); CHAT_ID = os.environ.get('CHAT_ID');
\* if not BOT_TOKEN or not CHAT_ID: return
EnvConfigured(cred) == Truthy(cred.envTok) /\ Truthy(cred.envChat)

\* the final statuses without TIMEOUT
FinalBuildStatuses_no_timeout == {"SUCCESS", "FAILURE", "CANCELLED"}

FinalBuildStatuses == {"SUCCESS", "FAILURE", "TIMEOUT", "CANCELLED"}

build_message(doc) ==
  << Line(IF doc.status = Some("SUCCESS") THEN "[check] *Build " ELSE "[cross] *Build ",
          GetOr(doc.status, "None")),
     Line("Project: ", GetOr(doc.projectId, "None")),
     Line("Repo: ", GetOr(doc.REPO_NAME, "Unknown")),
     Line("Branch: ", GetOr(doc.BRANCH_NAME, "Unknown")),
     Line("Build ID: ", GetOr(doc.id, "None")) >>

\* the try block of build_notifier
build_notifier_try(payload, post) ==
  LET d == DecodePayload(payload)
  IN IF d.raised \/ ~d.is_object
       THEN Outcome(<<"build_notifier">>, <<>>, TRUE, "none")
       ELSE IF payload.doc.status # None /\ payload.doc.status[1] \in FinalBuildStatuses
         THEN LET m == send_telegram_message(build_message(payload.doc), post)
              IN Outcome(<<"build_notifier">>, m.posts, m.raised, "none")
         ELSE Outcome(<<"build_notifier">>, <<>>, FALSE, "none")

\* build_notifier without its "except Exception"
build_notifier_uncaught(cred, payload, post) ==
  IF ~EnvConfigured(cred)
    THEN Outcome(<<"build_notifier">>, <<>>, FALSE, "none")
    ELSE build_notifier_try(payload, post)

build_notifier(cred, payload, post) ==
  IF ~EnvConfigured(cred)
    THEN Outcome(<<"build_notifier">>, <<>>, FALSE, "none")
    ELSE Caught(build_notifier_try(payload, post))

\* invoice_notifier with the generic template for an invoice_creation event
\* whose status is neither success nor failure
invoice_message_generic_attempt(doc) ==
  LET event_type == GetOr(doc.event_type, "invoice_creation")
      status == GetOr(doc.status, "None")
      invoice == Line("Invoice ID: ", GetOr(doc.invoice_id, "None"))
      order == Line("Order ID: ", GetOr(doc.external_order_id, "None"))
      customer == Line("Customer: ", GetOr(doc.customer_name, "Unknown"))
      amount == Line("Amount: ", GetOr(doc.amount, "None") \o " "
                                    \o GetOr(doc.currency, "EUR"))
      state == Line("Status: ", status)
      error == IF Truthy(doc.error_message)
                 THEN << Line("Error: ", doc.error_message[1]) >> ELSE <<>>
  IN CASE event_type = "invoice_creation" /\ status = "success" ->
            << Line("[money] *Invoice Created Successfully*", ""), invoice, order,
               customer, amount >>
       [] event_type = "invoice_creation" /\ status = "failure" ->
            << Line("[cross] *Invoice Creation Failed*", ""), order, customer >> \o error
       [] event_type = "invoice_creation" ->
            << Line("[page] *Invoice Event: ", event_type), invoice, order, state >>
       [] event_type = "invoice_completion" /\ status = "success" ->
            << Line("[check] *Invoice Completed & Fiscalized*", ""), invoice, order,
               customer, amount >>
       [] event_type = "invoice_completion" ->
            << Line("[warning] *Invoice Completion Issue*", ""), invoice, order, state >>
              \o error
       [] OTHER ->
            << Line("[page] *Invoice Event: ", event_type), invoice, order, state >>

\* the message of invoice_notifier
invoice_message(doc) ==
  LET event_type == GetOr(doc.event_type, "invoice_creation")
      status == GetOr(doc.status, "None")
      invoice == Line("Invoice ID: ", GetOr(doc.invoice_id, "None"))
      order == Line("Order ID: ", GetOr(doc.external_order_id, "None"))
      customer == Line("Customer: ", GetOr(doc.customer_name, "Unknown"))
      amount == Line("Amount: ", GetOr(doc.amount, "None") \o " "
                                    \o GetOr(doc.currency, "EUR"))
      state == Line("Status: ", status)
      error == IF Truthy(doc.error_message)
                 THEN << Line("Error: ", doc.error_message[1]) >> ELSE <<>>
  IN CASE event_type = "invoice_creation" /\ status = "success" ->
            << Line("[money] *Invoice Created Successfully*", ""), invoice, order,
               customer, amount >>
       [] event_type = "invoice_creation" /\ status = "failure" ->
            << Line("[cross] *Invoice Creation Failed*", ""), order, customer >> \o error
       [] event_type = "invoice_creation" ->
            << Line("[hourglass] *Invoice Creation Attempt*", ""), order, customer, state >>
       [] event_type = "invoice_completion" /\ status = "success" ->
            << Line("[check] *Invoice Completed & Fiscalized*", ""), invoice, order,
               customer, amount >>
       [] event_type = "invoice_completion" ->
            << Line("[warning] *Invoice Completion Issue*", ""), invoice, order, state >>
              \o error
       [] OTHER ->
            << Line("[page] *Invoice Event: ", event_type), invoice, order, state >>

\* the try block of invoice_notifier
invoice_notifier_try(payload, post) ==
  LET d == DecodePayload(payload)
  IN IF d.raised \/ ~d.is_object
       THEN Outcome(<<"invoice_notifier">>, <<>>, TRUE, "none")
       ELSE LET m == send_telegram_message(invoice_message(payload.doc), post)
            IN Outcome(<<"invoice_notifier">>, m.posts, m.raised, "none")

invoice_notifier(cred, payload, post) ==
  IF ~EnvConfigured(cred)
    THEN Outcome(<<"invoice_notifier">>, <<>>, FALSE, "none")
    ELSE Caught(invoice_notifier_try(payload, post))

\* the invoice test made before the build test
Classify_invoice_first(doc) ==
  IF doc.event_type # None \/ doc.invoice_id # None
    THEN "invoice"
    ELSE IF doc.projectId # None /\ doc.status # None /\ doc.id # None
      THEN "build"
      ELSE "unknown"

\* "Determine event type" of unified_notifier
Classify(doc) ==
  IF doc.projectId # None /\ doc.status # None /\ doc.id # None
    THEN "build"
    ELSE IF doc.event_type # None \/ doc.invoice_id # None
      THEN "invoice"
      ELSE "unknown"

\* unified_notifier followed by the notifier o it called
Through(route, o) ==
  Outcome(<<"unified_notifier">> \o o.fns, o.posts, o.raised, route)

\* the try block of unified_notifier
unified_notifier_try(cred, payload, post) ==
  LET d == DecodePayload(payload)
  IN IF d.raised \/ ~d.is_object
       THEN Outcome(<<"unified_notifier">>, <<>>, TRUE, "none")
       ELSE CASE Classify(payload.doc) = "build" ->
                   Through("build", build_notifier(cred, payload, post))
              [] Classify(payload.doc) = "invoice" ->
                   Through("invoice", invoice_notifier(cred, payload, post))
              [] OTHER -> Outcome(<<"unified_notifier">>, <<>>, FALSE, "unknown")

unified_notifier(cred, payload, post) ==
  IF ~EnvConfigured(cred)
    THEN Outcome(<<"unified_notifier">>, <<>>, FALSE, "none")
    ELSE Caught(unified_notifier_try(cred, payload, post))

\* ------------------------------------------------------ the monitoring pass
VARIABLES
  app,            \* "main" (monitor_invoicing_system) or "monitor_app" (monitor_dashboard)
  format_type,    \* request.args.get('format', 'html') of monitor_dashboard
  worker_env,     \* os.environ's WORKER_SERVICE_URL
  pc,             \* position of the pass
  db_session,     \* "none", "open" or "closed"
  store,          \* the orders the query read
  db_now,         \* the store's NOW() at the query
  stuck_jobs,
  health_status,
  probed,         \* health URLs requested, in order
  responses,      \* what each of those requests did
  alerts,
  alert_sent,     \* monitor_dashboard only
  sends,          \* send_telegram_alert calls: the message and the value returned
  calls,          \* the calls made by the pass, in order
  exc,            \* str(e) of the exception caught by the pass
  escaped,        \* an exception left the pass
  response        \* what the pass returned

\* one delivery of a Pub/Sub event to a notifier
VARIABLES
  ev_entry,       \* the function triggered: build_, invoice_ or unified_notifier
  ev_cred,        \* os.environ and the secret manager
  ev_payload,     \* cloud_event['data']
  ev_pc,          \* "idle", "triggered" or "returned"
  ev_fns,         \* the notifier functions entered, in order
  ev_posts,       \* the POSTs to the Telegram API
  ev_raised,      \* an exception left the entry point
  ev_route        \* how unified_notifier classified the document

passVars == <<app, format_type, worker_env, pc, db_session, store, db_now, stuck_jobs,
              health_status, probed, responses, alerts, alert_sent, sends, calls,
              exc, escaped, response>>

notifierVars == <<ev_entry, ev_cred, ev_payload, ev_pc, ev_fns, ev_posts,
                  ev_raised, ev_route>>

vars == <<passVars, notifierVars>>

\* no event is being delivered
NotifierIdle ==
  /\ ev_entry = "none"
  /\ ev_cred = CHOOSE c \in CredentialSetups : EnvConfigured(c)
  /\ ev_payload = [kind |-> "scalar", doc |-> NoDoc]
  /\ ev_pc = "idle"
  /\ ev_fns = <<>>
  /\ ev_posts = <<>>
  /\ ev_raised = FALSE
  /\ ev_route = "none"

Entries == { [app |-> "main", format_type |-> "json"],
             [app |-> "monitor_app", format_type |-> "json"],
             [app |-> "monitor_app", format_type |-> "html"] }

Init ==
  /\ NotifierIdle
  /\ \E e \in Entries : app = e.app /\ format_type = e.format_type
  /\ worker_env \in WorkerUrlEnv
  /\ pc = "acquire"
  /\ db_session = "none"
  /\ store = <<>>
  /\ db_now = AppNow
  /\ stuck_jobs = <<>>
  /\ health_status = InitialHealth
  /\ probed = <<>>
  /\ responses = <<>>
  /\ alerts = <<>>
  /\ alert_sent = FALSE
  /\ sends = <<>>
  /\ calls = <<>>
  /\ exc = <<>>
  /\ escaped = FALSE
  /\ response = [code |-> 0, summary |-> [status |-> "none"]]

\* an exception raised inside the try block reaches "except Exception as e"
Raise(e) == exc' = e /\ pc' = "handler"

Call(fn, arg) == [fn |-> fn, arg |-> arg]

\* where the pass goes once alerts is complete
AfterChecks(pending) == IF pending = <<>> THEN "close" ELSE "send"

\* db_session = get_database_connection()
AcquireConnection ==
  /\ pc = "acquire"
  /\ \E answer \in SecretAnswers, n \in ExcLens :
       LET r == get_database_connection(answer, n)
       IN IF r.raised
            THEN Raise(r.exc) /\ UNCHANGED db_session
            ELSE db_session' = "open" /\ pc' = "detect" /\ UNCHANGED exc
  /\ calls' = Append(calls, Call("get_database_connection", ""))
  /\ UNCHANGED notifierVars
  /\ UNCHANGED <<app, format_type, worker_env, store, db_now, stuck_jobs, health_status,
                 probed, responses, alerts, alert_sent, sends, escaped, response>>

\* stuck_jobs = check_stuck_jobs(db_session) and the stuck-jobs alert
RunCheckStuckJobsOn(stores, skews) ==
  /\ pc = "detect"
  /\ calls' = Append(calls, Call("check_stuck_jobs", ""))
  /\ \/ \E n \in ExcLens :
          /\ Raise(Text("execute", n))
          /\ UNCHANGED <<store, db_now, stuck_jobs, alerts>>
     \/ \E stored \in stores, skew \in skews :
          \E jobs \in check_stuck_jobs(OrdersOf(stored), AppNow, AppNow + skew) :
            /\ store' = stored
            /\ db_now' = AppNow + skew
            /\ stuck_jobs' = jobs
            /\ alerts' = IF jobs # <<>> /\ format_stuck_jobs_alert(jobs) # EmptyAlert
                           THEN Append(alerts, format_stuck_jobs_alert(jobs))
                           ELSE alerts
            /\ pc' = "probe"
            /\ UNCHANGED exc
  /\ UNCHANGED notifierVars
  /\ UNCHANGED <<app, format_type, worker_env, db_session, health_status, probed, responses,
                 alert_sent, sends, escaped, response>>

RunCheckStuckJobs == RunCheckStuckJobsOn(PassOrderSets, ClockSkews)

\* health_status = check_worker_health() and the health alert
RunCheckWorkerHealth ==
  /\ pc = "probe"
  /\ calls' = Append(calls, Call("check_worker_health", ""))
  /\ \E outs \in [1..2 -> ProbeOutcomes] :
       LET r == check_worker_health(worker_env, outs)
           pending == IF ~r.health_status.healthy
                         /\ format_worker_health_alert(r.health_status) # EmptyAlert
                        THEN Append(alerts, format_worker_health_alert(r.health_status))
                        ELSE alerts
       IN /\ probed' = r.probed
          /\ responses' = SubSeq(outs, 1, Len(r.probed))
          /\ IF r.raised
               THEN Raise(r.exc) /\ UNCHANGED <<health_status, alerts>>
               ELSE /\ health_status' = r.health_status
                    /\ alerts' = pending
                    /\ pc' = AfterChecks(pending)
                    /\ UNCHANGED exc
  /\ UNCHANGED notifierVars
  /\ UNCHANGED <<app, format_type, worker_env, db_session, store, db_now, stuck_jobs,
                 alert_sent, sends, escaped, response>>

\* the send loop abandoned at the first failed send
SendAlerts_stop_on_failure ==
  /\ pc = "send"
  /\ Len(sends) < Len(alerts)
  /\ \E cred \in CredentialSetups, post \in PostOutcomes :
       LET alert == alerts[Len(sends) + 1]
           r == send_telegram_alert(cred, post)
       IN /\ sends' = Append(sends, [alert |-> alert, ok |-> r.ok])
          /\ calls' = Append(calls, Call("send_telegram_alert", alert.kind))
          /\ alert_sent' = IF app = "monitor_app" /\ r.ok THEN TRUE ELSE alert_sent
          /\ pc' = IF Len(sends) + 1 = Len(alerts) \/ ~r.ok THEN "close" ELSE "send"
          /\ UNCHANGED exc
  /\ UNCHANGED notifierVars
  /\ UNCHANGED <<app, format_type, worker_env, db_session, store, db_now, stuck_jobs,
                 health_status, probed, responses, alerts, escaped, response>>

\* the alerts sent last first
SendAlerts_reversed ==
  /\ pc = "send"
  /\ Len(sends) < Len(alerts)
  /\ \E cred \in CredentialSetups, post \in PostOutcomes :
       LET alert == alerts[Len(alerts) - Len(sends)]
           r == send_telegram_alert(cred, post)
       IN /\ sends' = Append(sends, [alert |-> alert, ok |-> r.ok])
          /\ calls' = Append(calls, Call("send_telegram_alert", alert.kind))
          /\ alert_sent' = IF app = "monitor_app" /\ r.ok THEN TRUE ELSE alert_sent
          /\ pc' = IF Len(sends) + 1 = Len(alerts) THEN "close" ELSE "send"
          /\ UNCHANGED exc
  /\ UNCHANGED notifierVars
  /\ UNCHANGED <<app, format_type, worker_env, db_session, store, db_now, stuck_jobs,
                 health_status, probed, responses, alerts, escaped, response>>

\* one turn of "for alert in alerts: success = send_telegram_alert(alert)"
SendAlerts ==
  /\ pc = "send"
  /\ Len(sends) < Len(alerts)
  /\ \E cred \in CredentialSetups, post \in PostOutcomes :
       LET alert == alerts[Len(sends) + 1]
           r == send_telegram_alert(cred, post)
       IN /\ sends' = Append(sends, [alert |-> alert, ok |-> r.ok])
          /\ calls' = Append(calls, Call("send_telegram_alert", alert.kind))
          /\ IF r.raised
               THEN Raise(<<"send_telegram_alert">>) /\ UNCHANGED alert_sent
               ELSE /\ alert_sent' = IF app = "monitor_app" /\ r.ok THEN TRUE ELSE alert_sent
                    /\ pc' = IF Len(sends) + 1 = Len(alerts) THEN "close" ELSE "send"
                    /\ UNCHANGED exc
  /\ UNCHANGED notifierVars
  /\ UNCHANGED <<app, format_type, worker_env, db_session, store, db_now, stuck_jobs,
                 health_status, probed, responses, alerts, escaped, response>>

\* db_session.close()
CloseSession ==
  /\ pc = "close"
  /\ calls' = Append(calls, Call("close", ""))
  /\ \/ db_session' = "closed" /\ pc' = "respond" /\ UNCHANGED exc
     \/ \E n \in ExcLens : Raise(Text("close", n)) /\ UNCHANGED db_session
  /\ UNCHANGED notifierVars
  /\ UNCHANGED <<app, format_type, worker_env, store, db_now, stuck_jobs, health_status,
                 probed, responses, alerts, alert_sent, sends, escaped, response>>

\* the summary counting the alerts delivered instead of the alerts
Summary_counting_delivered ==
  IF app = "main"
    THEN [status |-> "completed",
          stuck_jobs_count |-> Len(stuck_jobs),
          worker_healthy |-> health_status.healthy,
          alerts_sent |-> Len(SelectSeq(sends, LAMBDA x : x.ok))]
    ELSE [status |-> "completed",
          overall_status |-> IF stuck_jobs # <<>> \/ ~health_status.healthy
                               THEN "issues" ELSE "healthy",
          stuck_jobs_count |-> Len(stuck_jobs),
          stuck_jobs |-> stuck_jobs,
          worker_healthy |-> health_status.healthy,
          worker_status |-> health_status,
          alerts_sent |-> Len(SelectSeq(sends, LAMBDA x : x.ok)),
          telegram_alert_sent |-> alert_sent]

\* the summary of a completed pass
Summary ==
  IF app = "main"
    THEN [status |-> "completed",
          stuck_jobs_count |-> Len(stuck_jobs),
          worker_healthy |-> health_status.healthy,
          alerts_sent |-> Len(alerts)]
    ELSE [status |-> "completed",
          overall_status |-> IF stuck_jobs # <<>> \/ ~health_status.healthy
                               THEN "issues" ELSE "healthy",
          stuck_jobs_count |-> Len(stuck_jobs),
          stuck_jobs |-> stuck_jobs,
          worker_healthy |-> health_status.healthy,
          worker_status |-> health_status,
          alerts_sent |-> Len(alerts),
          telegram_alert_sent |-> alert_sent]

\* return of the try block; jsonify / render_template_string of
\* monitor_dashboard can raise
ReturnResults ==
  /\ pc = "respond"
  /\ \/ response' = [code |-> 200, summary |-> Summary] /\ pc' = "done" /\ UNCHANGED exc
     \/ /\ app = "monitor_app"
        /\ \E n \in ExcLens : Raise(Text(format_type, n))
        /\ UNCHANGED response
  /\ UNCHANGED notifierVars
  /\ UNCHANGED <<app, format_type, worker_env, db_session, store, db_now, stuck_jobs,
                 health_status, probed, responses, alerts, alert_sent, sends,
                 calls, escaped>>

\* except Exception as e: the error alert and the error summary.  The error
\* response is built from str(e) and constants only (monitor_dashboard passes
\* status="error" and worker_error=str(e) to the template in the html view).
HandleException ==
  /\ pc = "handler"
  /\ \E cred \in CredentialSetups, post \in PostOutcomes :
       LET r == send_telegram_alert(cred, post)
       IN /\ sends' = Append(sends, [alert |-> ErrorAlert(exc), ok |-> r.ok])
          /\ calls' = Append(calls, Call("send_telegram_alert", "error"))
          /\ IF r.raised
               THEN escaped' = TRUE /\ UNCHANGED response
               ELSE /\ response' = [code |-> 500,
                                    summary |-> [status |-> "error", error |-> exc]]
                    /\ UNCHANGED escaped
  /\ pc' = "done"
  /\ UNCHANGED notifierVars
  /\ UNCHANGED <<app, format_type, worker_env, db_session, store, db_now, stuck_jobs,
                 health_status, probed, responses, alerts, alert_sent, exc>>

Next ==
  \/ AcquireConnection
  \/ RunCheckStuckJobs
  \/ RunCheckWorkerHealth
  \/ SendAlerts
  \/ CloseSession
  \/ ReturnResults
  \/ HandleException

Spec == Init /\ [][Next]_vars

\* the stuck-job detector alone, on every store and clock skew of the bounds
DetectorInit ==
  /\ NotifierIdle
  /\ \E e \in Entries : app = e.app /\ format_type = e.format_type
  /\ worker_env \in WorkerUrlEnv
  /\ pc = "detect"
  /\ db_session = "open"
  /\ store = <<>>
  /\ db_now = AppNow
  /\ stuck_jobs = <<>>
  /\ health_status = InitialHealth
  /\ probed = <<>>
  /\ responses = <<>>
  /\ alerts = <<>>
  /\ alert_sent = FALSE
  /\ sends = <<>>
  /\ calls = <<Call("get_database_connection", "")>>
  /\ exc = <<>>
  /\ escaped = FALSE
  /\ response = [code |-> 0, summary |-> [status |-> "none"]]

DetectorCall == RunCheckStuckJobsOn(OrderSets, ClockSkews)

DetectorNext == DetectorCall

DetectorSpec == DetectorInit /\ [][DetectorNext]_vars

\* --------------------------------------------- format_stuck_jobs_alert alone
\* the lists the detector can hand over: i-th oldest order first
JobLists ==
  UNION { { [i \in 1..n |->
               StuckJobReport([id |-> n + 1 - i, status |-> st[i],
                               created_at |-> AppNow - Day - (n + 1 - i)], AppNow)]
            : st \in [1..n -> {"PENDING", "PROCESSING"}] }
          : n \in 0..MaxJobs }

FormatterInit ==
  /\ NotifierIdle
  /\ app = "main"
  /\ format_type = "json"
  /\ worker_env = None
  /\ pc = "format"
  /\ db_session = "open"
  /\ store = <<>>
  /\ db_now = AppNow
  /\ stuck_jobs \in JobLists
  /\ health_status = InitialHealth
  /\ probed = <<>>
  /\ responses = <<>>
  /\ alerts = <<>>
  /\ alert_sent = FALSE
  /\ sends = <<>>
  /\ calls = <<>>
  /\ exc = <<>>
  /\ escaped = FALSE
  /\ response = [code |-> 0, summary |-> [status |-> "none"]]

\* stuck_jobs_alert = format_stuck_jobs_alert(stuck_jobs)
FormatStuckJobs ==
  /\ pc = "format"
  /\ alerts' = <<format_stuck_jobs_alert(stuck_jobs)>>
  /\ pc' = "formatted"
  /\ UNCHANGED notifierVars
  /\ UNCHANGED <<app, format_type, worker_env, db_session, store, db_now, stuck_jobs,
                 health_status, probed, responses, alert_sent, sends, calls,
                 exc, escaped, response>>

FormatterNext == FormatStuckJobs

FormatterSpec == FormatterInit /\ [][FormatterNext]_vars

\* ------------------------------------------------- the event notifiers
\* no monitoring pass is running
PassIdle ==
  /\ app = "main"
  /\ format_type = "json"
  /\ worker_env = None
  /\ pc = "idle"
  /\ db_session = "none"
  /\ store = <<>>
  /\ db_now = AppNow
  /\ stuck_jobs = <<>>
  /\ health_status = InitialHealth
  /\ probed = <<>>
  /\ responses = <<>>
  /\ alerts = <<>>
  /\ alert_sent = FALSE
  /\ sends = <<>>
  /\ calls = <<>>
  /\ exc = <<>>
  /\ escaped = FALSE
  /\ response = [code |-> 0, summary |-> [status |-> "none"]]

NotifierInit ==
  /\ PassIdle
  /\ ev_entry \in {"build_notifier", "invoice_notifier", "unified_notifier"}
  /\ ev_cred \in CredentialSetups
  /\ ev_payload \in Payloads
  /\ ev_pc = "triggered"
  /\ ev_fns = <<>>
  /\ ev_posts = <<>>
  /\ ev_raised = FALSE
  /\ ev_route = "none"

\* the entry point runs to its return
Deliver(o) ==
  /\ ev_fns' = o.fns
  /\ ev_posts' = o.posts
  /\ ev_raised' = o.raised
  /\ ev_route' = o.route
  /\ ev_pc' = "returned"
  /\ UNCHANGED <<ev_entry, ev_cred, ev_payload>>
  /\ UNCHANGED passVars

RunBuildNotifier ==
  /\ ev_pc = "triggered"
  /\ ev_entry = "build_notifier"
  /\ \E post \in PostOutcomes : Deliver(build_notifier(ev_cred, ev_payload, post))

RunInvoiceNotifier ==
  /\ ev_pc = "triggered"
  /\ ev_entry = "invoice_notifier"
  /\ \E post \in PostOutcomes : Deliver(invoice_notifier(ev_cred, ev_payload, post))

RunUnifiedNotifier ==
  /\ ev_pc = "triggered"
  /\ ev_entry = "unified_notifier"
  /\ \E post \in PostOutcomes : Deliver(unified_notifier(ev_cred, ev_payload, post))

NotifierNext ==
  \/ RunBuildNotifier
  \/ RunInvoiceNotifier
  \/ RunUnifiedNotifier

NotifierSpec == NotifierInit /\ [][NotifierNext]_vars

\* ------------------------------------------------------------------ claims
\* the pass has returned (or an exception has left it)
Returned == pc = "done"

\* the pass went through its except clause
Failed == pc \in {"handler", "done"} /\ exc # <<>>

\* the sends of the stuck-jobs and health alerts, in order
OrdinarySends == SelectSeq(sends, LAMBDA x : x.alert.kind # "error")

ErrorSends == SelectSeq(sends, LAMBDA x : x.alert.kind = "error")

\* C1: once the store connection has been acquired, it has been released
\* when the pass returns, on every path.
ConnectionReleasedOnReturn ==
  (Returned /\ db_session # "none") => db_session = "closed"

\* C2: a pass in which a step raised attempts exactly one error alert, whose
\* failure description is the first 200 symbols of the exception's text,
\* returns an error-status summary, and lets no exception out, whether or not
\* the error alert was delivered.
ErrorPathContract ==
  /\ ~escaped
  /\ ~Failed => ErrorSends = <<>>
  /\ pc = "handler" => ErrorSends = <<>>
  /\ (Returned /\ Failed) =>
       /\ Len(ErrorSends) = 1
       /\ sends[Len(sends)].alert.kind = "error"
       /\ LET d == sends[Len(sends)].alert.detail
          IN /\ Len(d) = Min(Len(exc), ErrTrunc)
             /\ \A i \in 1..Len(d) : d[i] = exc[i]
       /\ response.code = 500
       /\ response.summary.status = "error"

\* C2 witness: the exception text is longer than 200 symbols and the error
\* alert was not delivered
ErrorPathWitness ==
  /\ Returned
  /\ Len(exc) > ErrTrunc
  /\ Len(ErrorSends) = 1
  /\ ~ErrorSends[1].ok
  /\ response.summary.status = "error"

\* C3: every alert of the pass gets one send attempt, in order and never a
\* second one; a send that fails does not raise into the pass, the remaining
\* alert is still attempted, and a pass in which nothing raised returns the
\* completed summary.
SendFailureAbsorbed ==
  /\ Len(OrdinarySends) <= Len(alerts)
  /\ \A i \in 1..Len(OrdinarySends) : OrdinarySends[i].alert = alerts[i]
  /\ Failed => calls[Len(calls) - (IF Returned THEN 1 ELSE 0)].fn # "send_telegram_alert"
  /\ pc \in {"close", "respond"} => Len(OrdinarySends) = Len(alerts)
  /\ (Returned /\ ~Failed) =>
       /\ Len(OrdinarySends) = Len(alerts)
       /\ response.code = 200
       /\ response.summary.status = "completed"

\* C3 witness: two alerts, the first send failed, the second was made, and
\* the pass completed
SendFailureWitness ==
  /\ Returned /\ ~Failed
  /\ Len(alerts) = 2
  /\ Len(sends) = 2
  /\ ~sends[1].ok
  /\ sends[2].ok
  /\ response.summary.status = "completed"

\* C4: the detector returns exactly the orders that are PENDING or
\* PROCESSING and were created more than 24 hours before the application's
\* now, each once, in ascending order of created_at.
DetectorExact ==
  pc = "probe" =>
    /\ \A i \in DOMAIN store :
         (\E k \in DOMAIN stuck_jobs : stuck_jobs[k].id = i)
           <=> /\ store[i].status \in {"PENDING", "PROCESSING"}
               /\ AppNow - store[i].created_at > StuckHours * UnitsPerHour
    /\ \A k \in DOMAIN stuck_jobs :
         /\ stuck_jobs[k].id \in DOMAIN store
         /\ stuck_jobs[k].status = store[stuck_jobs[k].id].status
         /\ stuck_jobs[k].created_at = store[stuck_jobs[k].id].created_at
    /\ \A j, k \in DOMAIN stuck_jobs :
         /\ j # k => stuck_jobs[j].id # stuck_jobs[k].id
         /\ j < k => stuck_jobs[j].created_at <= stuck_jobs[k].created_at

\* C4 witness: two stuck orders returned in the reverse of their order in the
\* store, a third order of the store left out
DetectorWitness ==
  /\ pc = "probe"
  /\ Len(store) = 3
  /\ Len(stuck_jobs) = 2
  /\ stuck_jobs[1].id > stuck_jobs[2].id
  /\ stuck_jobs[1].created_at < stuck_jobs[2].created_at

\* C5: every job the detector reports has hours_stuck of at least 24.0.
HoursStuckAtLeast24 ==
  \A k \in DOMAIN stuck_jobs : stuck_jobs[k].hours_stuck >= 10 * StuckHours

\* check_worker_health has returned a result to the pass
ProbeReturned ==
  /\ responses # <<>>
  /\ responses[Len(responses)].kind # "Exception"

\* the health URL of candidate i
CandidateUrl(i) ==
  IF i = 1 /\ worker_env # None
    THEN RStrip(worker_env[1]) \o <<"/health">>
    ELSE RStrip(FallbackUrl) \o <<"/health">>

\* C6: the candidates are probed in order, configured URL first; the first
\* to answer 200 makes the result healthy with its URL and no error, and
\* nothing is probed after it.
ProbeOrder ==
  /\ Len(probed) <= 2
  /\ \A i \in DOMAIN probed : probed[i] = CandidateUrl(i)
  /\ \A i \in DOMAIN responses :
       i < Len(responses) =>
         ~(responses[i].kind = "response" /\ responses[i].status_code = "200")
  /\ ProbeReturned =>
       LET last == responses[Len(responses)]
       IN IF last.kind = "response" /\ last.status_code = "200"
            THEN /\ health_status.healthy
                 /\ health_status.url = Some(probed[Len(probed)])
                 /\ health_status.error = None
            ELSE ~health_status.healthy /\ Len(responses) = 2

\* C6 witness: the first candidate timed out, the second answered 200
ProbeOrderWitness ==
  /\ Len(responses) = 2
  /\ responses[1].kind = "RequestException"
  /\ responses[2].status_code = "200"
  /\ health_status.healthy
  /\ health_status.url = Some(CandidateUrl(2))
  /\ worker_env # None

\* C7: check_worker_health never raises into the pass.
HealthNeverRaises ==
  ~(pc = "handler" /\ calls[Len(calls)].fn = "check_worker_health")

\* the error text of a probe that did not answer 200
ProbeError(o) ==
  IF o.kind = "response" THEN <<"HTTP ", o.status_code>> ELSE o.msg

\* C8: when no candidate answered 200, the result is unhealthy and its error
\* is the error of the last candidate probed.
LastErrorReported ==
  (ProbeReturned /\ \A i \in DOMAIN responses : responses[i].status_code # "200") =>
    /\ ~health_status.healthy
    /\ Len(responses) = 2
    /\ health_status.error = Some(ProbeError(responses[2]))

\* C8 witness: the two candidates failed differently
LastErrorWitness ==
  /\ ProbeReturned
  /\ Len(responses) = 2
  /\ responses[1].status_code = "500"
  /\ responses[2].kind = "RequestException"
  /\ health_status.error = Some(<<"Read timed out">>)

\* C9: the health alert of an unhealthy result names the recorded URL, or
\* "Multiple URLs tried" when none is recorded, and the recorded error, or
\* "Unknown error" when none is recorded.
HealthAlertPlaceholders ==
  \A i \in DOMAIN alerts :
    alerts[i].kind = "health" =>
      /\ alerts[i].url = IF health_status.url = None
                           THEN <<"Multiple URLs tried">>
                           ELSE health_status.url[1]
      /\ alerts[i].error = IF health_status.error = None
                             THEN <<"Unknown error">>
                             ELSE health_status.error[1]

\* a send of a stuck-jobs or health alert
IsAlertSend(c) == c.fn = "send_telegram_alert" /\ c.arg # "error"

\* C10: the stuck-job check is called before the health check, no stuck-jobs
\* or health alert is sent before both checks were made, and the stuck-jobs
\* alert is sent before the health alert.
PassOrder ==
  /\ \A i, j \in DOMAIN calls :
       (calls[i].fn = "check_worker_health" /\ calls[j].fn = "check_stuck_jobs")
         => j < i
  /\ \A k \in DOMAIN calls :
       IsAlertSend(calls[k]) =>
         /\ \E j \in 1..(k - 1) : calls[j].fn = "check_stuck_jobs"
         /\ \E j \in 1..(k - 1) : calls[j].fn = "check_worker_health"
         /\ stuck_jobs # <<>> \/ ~health_status.healthy
  /\ \A i, j \in DOMAIN calls :
       (calls[i] = Call("send_telegram_alert", "stuck")
          /\ calls[j] = Call("send_telegram_alert", "health")) => i < j

\* C10 witness: both alerts were sent
PassOrderWitness ==
  /\ \E i \in DOMAIN calls : calls[i] = Call("send_telegram_alert", "stuck")
  /\ \E j \in DOMAIN calls : calls[j] = Call("send_telegram_alert", "health")

\* an entry point has returned after decoding a JSON object, with BOT_TOKEN
\* and CHAT_ID set in its environment
Handled(entry) ==
  /\ ev_pc = "returned"
  /\ ev_entry = entry
  /\ ev_payload.kind = "object"
  /\ EnvConfigured(ev_cred)

\* the notifier unified_notifier handed the event to
CalledBy(fns) == IF Len(fns) = 2 THEN fns[2] ELSE "none"

\* C11: unified_notifier (with its credentials set) treats a document as a
\* build event iff it has projectId, status and id, whatever else it has;
\* otherwise as an invoice event iff it has event_type or invoice_id;
\* otherwise as unrecognized, and then posts nothing and raises nothing.
ClassificationOrder ==
  Handled("unified_notifier") =>
    LET d == ev_payload.doc
        has(k) == d[k] # None
        build == has("projectId") /\ has("status") /\ has("id")
        invoice == ~build /\ (has("event_type") \/ has("invoice_id"))
    IN /\ build <=> (ev_route = "build" /\ CalledBy(ev_fns) = "build_notifier")
       /\ invoice <=> (ev_route = "invoice" /\ CalledBy(ev_fns) = "invoice_notifier")
       /\ (~build /\ ~invoice) =>
            /\ ev_route = "unknown"
            /\ ev_fns = <<"unified_notifier">>
            /\ ev_posts = <<>>
            /\ ~ev_raised

\* C11 witness: a document with the three build keys and the two invoice
\* keys was handed to build_notifier
ClassificationWitness ==
  /\ Handled("unified_notifier")
  /\ \A k \in {"projectId", "status", "id", "event_type", "invoice_id"} :
       ev_payload.doc[k] # None
  /\ ev_fns = <<"unified_notifier", "build_notifier">>

\* the event was handled as a build event: by build_notifier itself, or by
\* unified_notifier for a document with projectId, status and id
BuildHandled ==
  \/ Handled("build_notifier")
  \/ /\ Handled("unified_notifier")
     /\ \A k \in {"projectId", "status", "id"} : ev_payload.doc[k] # None

\* C12: for a build event (credentials set) one message is posted when the
\* status is SUCCESS, FAILURE, TIMEOUT or CANCELLED, with the success marker
\* for SUCCESS and the other marker otherwise; for any other status, or
\* none, nothing is posted; no exception leaves the notifier.
BuildStatusFilter ==
  BuildHandled =>
    LET status == ev_payload.doc.status
    IN /\ ~ev_raised
       /\ IF status \in {Some("SUCCESS"), Some("FAILURE"), Some("TIMEOUT"),
                          Some("CANCELLED")}
            THEN /\ Len(ev_posts) = 1
                 /\ ev_posts[1].message[1].value = status[1]
                 /\ ev_posts[1].message[1].text =
                      IF status = Some("SUCCESS") THEN "[check] *Build "
                      ELSE "[cross] *Build "
            ELSE ev_posts = <<>>

\* C12 witness: a TIMEOUT build delivered through unified_notifier
BuildStatusWitness ==
  /\ Handled("unified_notifier")
  /\ BuildHandled
  /\ ev_payload.doc.status = Some("TIMEOUT")
  /\ Len(ev_posts) = 1
  /\ ev_posts[1].message[1].text = "[cross] *Build "

\* C13: a payload that is not base64 or not JSON makes every entry point
\* return without posting, and no exception leaves an entry point, neither
\* from decoding nor from a POST that failed.
DecodeFailureAbsorbed ==
  ev_pc = "returned" =>
    /\ ~ev_raised
    /\ ev_payload.kind \in {"bad_base64", "bad_json"} => ev_posts = <<>>

\* C13 witness: a malformed payload reached the decoding of build_notifier
DecodeFailureWitness ==
  /\ ev_pc = "returned"
  /\ ev_entry = "build_notifier"
  /\ EnvConfigured(ev_cred)
  /\ ev_payload.kind = "bad_base64"
  /\ ev_posts = <<>>
  /\ ~ev_raised

\* the classes of event_type and status the claim distinguishes
EventClass(doc) ==
  LET t == IF doc.event_type = None THEN "invoice_creation" ELSE doc.event_type[1]
  IN IF t \in {"invoice_creation", "invoice_completion"} THEN t ELSE "other"

StatusClass(doc) ==
  IF doc.status \in {Some("success"), Some("failure")} THEN doc.status[1] ELSE "other"

\* the fixed text of a message
Skeleton(message) == [i \in DOMAIN message |-> message[i].text]

\* invoice_notifier posted the message of the document
InvoicePosted ==
  /\ Handled("invoice_notifier")
  /\ Len(ev_posts) = 1

\* C14 as claimed: two invoice documents that differ in the class of
\* event_type or of status get different templates.
NineDistinctTemplates ==
  InvoicePosted =>
    \A d \in Docs :
      <<EventClass(d), StatusClass(d)>>
          # <<EventClass(ev_payload.doc), StatusClass(ev_payload.doc)>>
        => Skeleton(invoice_message(d)) # Skeleton(ev_posts[1].message)

\* the templates of the code: three for invoice_creation, two for
\* invoice_completion (success, anything else) and one for any other event
TemplateGroup(doc) ==
  CASE EventClass(doc) = "invoice_creation" -> <<"invoice_creation", StatusClass(doc)>>
    [] EventClass(doc) = "invoice_completion" ->
         <<"invoice_completion",
           IF StatusClass(doc) = "success" THEN "success" ELSE "not success">>
    [] OTHER -> <<"other", "any">>

\* C14 amended: the template is fixed by the class of event_type and of
\* status, and six templates are distinct: invoice_creation has one each
\* for success, failure and other; invoice_completion has one for success
\* and one shared by failure and other; every other event_type has one
\* for all statuses.
SixDistinctTemplates ==
  InvoicePosted =>
    \A d \in Docs :
      /\ TemplateGroup(d) # TemplateGroup(ev_payload.doc)
           => Skeleton(invoice_message(d)) # Skeleton(ev_posts[1].message)
      /\ (/\ TemplateGroup(d) = TemplateGroup(ev_payload.doc)
          /\ d.error_message = ev_payload.doc.error_message)
           => Skeleton(invoice_message(d)) = Skeleton(ev_posts[1].message)

\* C14 witness: the message of a failed invoice_completion was posted
SixTemplatesWitness ==
  /\ InvoicePosted
  /\ EventClass(ev_payload.doc) = "invoice_completion"
  /\ StatusClass(ev_payload.doc) = "failure"
  /\ ev_posts[1].message[1].text = "[warning] *Invoice Completion Issue*"

\* C15: every credential is the environment's value, or the secret's when
\* the environment's is missing or empty: invoice_notifier posts the
\* message of a document exactly when the token and the chat id so
\* resolved are both non-empty.
CredentialsEnvThenSecret ==
  (ev_pc = "returned" /\ ev_entry = "invoice_notifier" /\ ev_payload.kind = "object") =>
    (ev_posts # <<>> <=>
       /\ Truthy(PyOr(ev_cred.envTok, get_secret(ev_cred.secTok)))
       /\ Truthy(PyOr(ev_cred.envChat, get_secret(ev_cred.secChat))))

\* C16: the stuck-jobs formatter returns the empty alert iff there are no
\* stuck jobs and the health formatter iff the worker is healthy, so that
\* once both checks have returned the pass has a stuck-jobs alert iff a job
\* was detected and a health alert iff the worker is unhealthy, and a
\* completed pass has attempted exactly those.
AlertsIffSomethingToReport ==
  /\ (format_stuck_jobs_alert(stuck_jobs) = EmptyAlert) <=> (stuck_jobs = <<>>)
  /\ (format_worker_health_alert(health_status) = EmptyAlert) <=> health_status.healthy
  /\ ProbeReturned =>
       /\ (\E i \in DOMAIN alerts : alerts[i].kind = "stuck") <=> (stuck_jobs # <<>>)
       /\ (\E i \in DOMAIN alerts : alerts[i].kind = "health") <=> ~health_status.healthy
       /\ \A i \in DOMAIN alerts : alerts[i].kind \in {"stuck", "health"}
  /\ (Returned /\ ~Failed) =>
       /\ (\E i \in DOMAIN sends : sends[i].alert.kind = "stuck") <=> (stuck_jobs # <<>>)
       /\ (\E i \in DOMAIN sends : sends[i].alert.kind = "health")
            <=> ~health_status.healthy

\* C16 witness: a completed pass with one stuck job and a healthy worker sent
\* the stuck-jobs alert only
AlertsIffWitness ==
  /\ Returned /\ ~Failed
  /\ Len(stuck_jobs) = 1
  /\ health_status.healthy
  /\ Len(sends) = 1
  /\ sends[1].alert.kind = "stuck"

\* C17: for n stuck jobs the alert states n, lists the first min(n, 5) jobs
\* in the order given, and carries "... and n-5 more stuck jobs" iff n > 5.
StuckAlertShape ==
  pc = "formatted" =>
    LET n == Len(stuck_jobs)
        a == alerts[1]
    IN IF n = 0
         THEN a = EmptyAlert
         ELSE /\ a.kind = "stuck"
              /\ a.total = n
              /\ Len(a.listed) = (IF n < 5 THEN n ELSE 5)
              /\ \A i \in DOMAIN a.listed : a.listed[i] = stuck_jobs[i]
              /\ (a.more # None) <=> (n > 5)
              /\ n > 5 => a.more = Some(n - 5)

\* C17 witness: 7 jobs, 5 listed, "... and 2 more stuck jobs"
StuckAlertWitness ==
  /\ pc = "formatted"
  /\ Len(stuck_jobs) = 7
  /\ Len(alerts[1].listed) = 5
  /\ alerts[1].more = Some(2)

\* C18: the summary of a completed pass reports the number of jobs the
\* detector returned, the prober's healthy flag, and as alerts_sent the
\* number of alerts for which a send was attempted, delivered or not; in
\* monitor_dashboard telegram_alert_sent says whether a send succeeded.
SummaryCounts ==
  (Returned /\ ~Failed) =>
    LET sm == response.summary
    IN /\ sm.stuck_jobs_count = Len(stuck_jobs)
       /\ sm.stuck_jobs_count =
            Cardinality({ i \in DOMAIN store :
                            /\ store[i].status \in {"PENDING", "PROCESSING"}
                            /\ store[i].created_at < AppNow - Day })
       /\ sm.worker_healthy = health_status.healthy
       /\ sm.worker_healthy <=> responses[Len(responses)].status_code = "200"
       /\ sm.alerts_sent = Len(OrdinarySends)
       /\ app = "monitor_app" =>
            (sm.telegram_alert_sent <=> \E i \in DOMAIN sends : sends[i].ok)

\* C18 witness: monitor_dashboard attempted two alerts and delivered one
SummaryCountsWitness ==
  /\ Returned /\ ~Failed
  /\ app = "monitor_app"
  /\ Len(sends) = 2
  /\ ~sends[1].ok
  /\ sends[2].ok
  /\ response.summary.alerts_sent = 2
  /\ response.summary.telegram_alert_sent

\* C19: a pass that attempted the error alert attempted no stuck-jobs or
\* health alert.
ErrorAlertExcludesOrdinary ==
  (Returned /\ ErrorSends # <<>>) => OrdinarySends = <<>>

TypeOK ==
  /\ pc \in {"acquire", "detect", "probe", "send", "close", "respond", "handler", "done"}
  /\ db_session \in {"none", "open", "closed"}
  /\ Len(sends) <= Len(alerts) + 1

====
